---- MODULE Spec2Model ----
(***************************************************************************)
(* A model of the lion HTTP router (src/router.go): the router tree, the   *)
(* registration of routes and middleware, Mount, and the dispatch of       *)
(* requests through the pooled request context.                            *)
(*                                                                         *)
(* Strings that the code takes apart or joins (path patterns, request      *)
(* paths) are sequences of one-character strings, so that "/a" is          *)
(* <<"/", "a">> and Go's + on strings is \o.  Hosts, methods, middleware   *)
(* and handler names are never taken apart and stay TLA+ strings.          *)
(*                                                                         *)
(* A handler is a record [mws, h]: the terminal handler h wrapped by the   *)
(* middlewares mws, outermost first.  A plain handler has mws = <<>>.      *)
(***************************************************************************)
EXTENDS Integers, Sequences, FiniteSets

VARIABLES
    routers,   \* Seq of Router objects; a *Router is an index into it
    rts,       \* Seq of route objects; a *route is an index into it
    hostrm,    \* hostMatcher id -> (host pattern -> (path pattern -> *route))
    ctxs,      \* Seq of ctx objects; a *ctx is an index into it
    disp,      \* the ServeHTTP calls: position and locals of each
    fatal,     \* a setup-time panic has aborted the program
    last,      \* the operation that produced this state, with its arguments
    mounts,    \* history: the Mount calls that have returned
    ops        \* number of setup operations performed

vars == <<routers, rts, hostrm, ctxs, disp, fatal, last, mounts, ops>>

----------------------------------------------------------------------------
(* Bounds of the model *)

MaxOps == 3
MaxRouters == 3
MaxDispatch == 2

----------------------------------------------------------------------------
(* Values *)

NilRouter == 0
NilHandler == [mws |-> <<>>, h |-> "nil"]
NoRoute == 0

allowedHTTPMethods ==
    <<"GET", "HEAD", "POST", "PUT", "DELETE", "TRACE", "OPTIONS", "CONNECT", "PATCH">>

EmptyMap == [x \in {} |-> x]

MapPut(f, k, v) == [x \in DOMAIN f \cup {k} |-> IF x = k THEN v ELSE f[x]]

Plain(name) == [mws |-> <<>>, h |-> name]

World == [routers |-> routers, rts |-> rts, hostrm |-> hostrm]

----------------------------------------------------------------------------
(* Middlewares.BuildHandler: the first middleware of the list is the       *)
(* outermost wrapper of the handler.                                       *)
BuildHandler(mws, handler) == [mws |-> mws \o handler.mws, h |-> handler.h]

(* hostMatcher.Register: the path matcher of a host pattern, created when  *)
(* the host pattern is new.                                                *)
hostRegister(w, hm, host) ==
    IF host \in DOMAIN w.hostrm[hm]
    THEN w
    ELSE [w EXCEPT !.hostrm[hm] = MapPut(@, host, EmptyMap)]

(* pathMatcher.Register: the route at the pattern's terminal node, created *)
(* when there is none; the method's handler is set on it in place.         *)
pathRegister(w, hm, host, method, p, built) ==
    LET pm == w.hostrm[hm][host] IN
    IF p \in DOMAIN pm
    THEN [w  |-> [w EXCEPT !.rts[pm[p]].handlers = MapPut(@, method, built)],
          rt |-> pm[p]]
    ELSE LET rt == Len(w.rts) + 1
             nrt == [pattern |-> <<>>, host |-> "", pathMatcher |-> <<>>,
                     handlers |-> MapPut(EmptyMap, method, built)]
         IN [w  |-> [w EXCEPT !.rts = Append(@, nrt),
                              !.hostrm[hm][host] = MapPut(@, p, rt)],
             rt |-> rt]

(* route.Methods: the methods the route has a handler for. *)
Methods(route) == SelectSeq(allowedHTTPMethods, LAMBDA m : m \in DOMAIN route.handlers)

(* route.withMethods: one handler for each of the methods. *)
withMethods(w, rt, handler, methods) ==
    [w EXCEPT !.rts[rt].handlers =
        [m \in DOMAIN @ \cup {methods[i] : i \in DOMAIN methods} |->
            IF \E i \in DOMAIN methods : methods[i] = m THEN handler ELSE @[m]]]

----------------------------------------------------------------------------
(* Router *)

newRouter(parent, hm, pattern, host) ==
    [pattern |-> pattern, middlewares |-> <<>>, parent |-> parent,
     subrouters |-> <<>>, routes |-> <<>>, host |-> host, hostrm |-> hm,
     pool |-> {}, notFoundHandler |-> NilHandler, namedMiddlewares |-> EmptyMap]

isRoot(w, r) == w.routers[r].parent = NilRouter

RECURSIVE root(_, _)
root(w, r) == IF w.routers[r].parent = NilRouter THEN r ELSE root(w, w.routers[r].parent)

(* Faulty variant of Use: the middleware is also wrapped around the chains *)
(* of the routes the router has already registered.                        *)
UseRewrapsRoutes(w, r, mws) ==
    [w EXCEPT !.routers[r].middlewares = @ \o mws,
              !.rts = [rt \in DOMAIN @ |->
                         IF \E i \in DOMAIN w.routers[r].routes : w.routers[r].routes[i] = rt
                         THEN [@[rt] EXCEPT !.handlers =
                                  [m \in DOMAIN @ |-> BuildHandler(mws, @[m])]]
                         ELSE @[rt]]]

Use(w, r, mws) == [w EXCEPT !.routers[r].middlewares = @ \o mws]

hasNamed(w, r, name) == name \in DOMAIN w.routers[r].namedMiddlewares

(* Define: the middleware is appended to the group of that name, which is  *)
(* created when the name is new (also when no middleware is given).        *)
Define(w, r, name, mws) ==
    LET named == w.routers[r].namedMiddlewares
        old == IF name \in DOMAIN named THEN named[name] ELSE <<>>
    IN  [w EXCEPT !.routers[r].namedMiddlewares = MapPut(named, name, old \o mws)]

(* Faulty variant of UseNamed: only the router's own table is looked up.   *)
UseNamedOwnTable(w, r, name) ==
    IF hasNamed(w, r, name)
    THEN [w |-> Use(w, r, w.routers[r].namedMiddlewares[name]), panic |-> FALSE]
    ELSE [w |-> w, panic |-> TRUE]

(* UseNamed: the world after the call, or the panic of an unknown name.    *)
RECURSIVE UseNamed(_, _, _)
UseNamed(w, r, name) ==
    IF hasNamed(w, r, name)
    THEN [w |-> Use(w, r, w.routers[r].namedMiddlewares[name]), panic |-> FALSE]
    ELSE IF ~isRoot(w, r) THEN UseNamed(w, w.routers[r].parent, name)
    ELSE [w |-> w, panic |-> TRUE]

(* Faulty variant of Subrouter: the new router starts under the default    *)
(* host instead of its parent's.                                           *)
SubrouterDefaultHost(w, r, mws) ==
    LET nr == Len(w.routers) + 1
        pr == w.routers[r]
        w1 == [w EXCEPT !.routers = Append(@, newRouter(r, pr.hostrm, pr.pattern, ""))]
        w2 == Use(w1, nr, mws)
    IN  [w |-> [w2 EXCEPT !.routers[r].subrouters = Append(@, nr)], nr |-> nr]

Subrouter(w, r, mws) ==
    LET nr == Len(w.routers) + 1
        pr == w.routers[r]
        w1 == [w EXCEPT !.routers = Append(@, newRouter(r, pr.hostrm, pr.pattern, pr.host))]
        w2 == Use(w1, nr, mws)
    IN  [w |-> [w2 EXCEPT !.routers[r].subrouters = Append(@, nr)], nr |-> nr]

validatePattern(pattern) == ~(Len(pattern) = 0 \/ pattern[1] # "/")

GroupPattern(rp, pattern) ==
    IF pattern = <<"/">> /\ rp # <<"/">> /\ rp # <<>> THEN rp ELSE rp \o pattern

Group(w, r, pattern, mws) ==
    LET s == Subrouter(w, r, mws) IN
    [w |-> [s.w EXCEPT !.routers[s.nr].pattern = GroupPattern(w.routers[r].pattern, pattern)],
     nr |-> s.nr]

(* Faulty variant of buildMiddlewares: the ancestors' middleware is put     *)
(* inside the router's own middleware instead of outside it.               *)
RECURSIVE buildMiddlewaresParentInside(_, _, _)
buildMiddlewaresParentInside(w, r, handler) ==
    IF ~isRoot(w, r)
    THEN BuildHandler(w.routers[r].middlewares,
                      buildMiddlewaresParentInside(w, w.routers[r].parent, handler))
    ELSE BuildHandler(w.routers[r].middlewares, handler)

RECURSIVE buildMiddlewares(_, _, _)
buildMiddlewares(w, r, handler) ==
    LET h == BuildHandler(w.routers[r].middlewares, handler) IN
    IF ~isRoot(w, r) THEN buildMiddlewares(w, w.routers[r].parent, h) ELSE h

(* Faulty variant of findRoute: the route is never found. *)
findRouteNever(w, r, rt) == FALSE

findRoute(w, r, rt) == \E i \in DOMAIN w.routers[r].routes : w.routers[r].routes[i] = rt

HandlePattern(rp, pattern) ==
    IF pattern = <<"/">> /\ rp # <<>> THEN rp ELSE rp \o pattern

Handle(w, r, method, pattern, handler) ==
    LET p == HandlePattern(w.routers[r].pattern, pattern)
        built == buildMiddlewares(w, r, handler)
        hm == w.routers[root(w, r)].hostrm
        host == w.routers[r].host
        reg == pathRegister(hostRegister(w, hm, host), hm, host, method, p, built)
        rt == reg.rt
    IN  IF ~findRoute(reg.w, r, rt)
        THEN [w  |-> [reg.w EXCEPT !.rts[rt].pattern = p,
                                   !.rts[rt].host = host,
                                   !.rts[rt].pathMatcher = <<hm, host>>,
                                   !.routers[r].routes = Append(@, rt)],
              rt |-> rt]
        ELSE [w |-> reg.w, rt |-> rt]

Host(w, r, hostpattern) ==
    hostRegister([w EXCEPT !.routers[r].host = hostpattern], w.routers[r].hostrm, hostpattern)

Any(w, r, pattern, handler) ==
    LET h == Handle(w, r, allowedHTTPMethods[1], pattern, handler) IN
    [w  |-> withMethods(h.w, h.rt, BuildHandler(h.w.routers[r].middlewares, handler),
                        Tail(allowedHTTPMethods)),
     rt |-> h.rt]

RECURSIVE MountMethods(_, _, _, _)
MountMethods(w, r, rt, methods) ==
    IF methods = <<>> THEN w
    ELSE LET method == Head(methods) IN
         MountMethods(Handle(w, r, method, w.rts[rt].pattern, w.rts[rt].handlers[method]).w,
                      r, rt, Tail(methods))

(* Faulty variant of Mount's loop: the routes are registered under the     *)
(* mounting router's own host, without the Host call.                      *)
RECURSIVE MountRoutesAmbientHost(_, _, _)
MountRoutesAmbientHost(w, r, subroutes) ==
    IF subroutes = <<>> THEN w
    ELSE LET rt == Head(subroutes) IN
         MountRoutesAmbientHost(MountMethods(w, r, rt, Methods(w.rts[rt])), r, Tail(subroutes))

RECURSIVE MountRoutes(_, _, _)
MountRoutes(w, r, subroutes) ==
    IF subroutes = <<>> THEN w
    ELSE LET rt == Head(subroutes)
             w1 == Host(w, r, w.rts[rt].host)
         IN  MountRoutes(MountMethods(w1, r, rt, Methods(w1.rts[rt])), r, Tail(subroutes))

MountPattern(rp, pattern) == IF pattern = <<"/">> THEN rp ELSE rp \o pattern

(* Faulty variant of Mount: the mounted router is also kept as a subrouter *)
(* of the mounting one, so that its later routes show up in Routes().      *)
MountLinksSubrouter(w, r, pattern, sub) ==
    LET oldp == w.routers[r].pattern
        host == w.routers[r].host
        w1 == [w EXCEPT !.routers[r].pattern = MountPattern(oldp, pattern)]
        w2 == MountRoutes(w1, r, w1.routers[sub].routes)
    IN  [w2 EXCEPT !.routers[r].host = host, !.routers[r].pattern = oldp,
                   !.routers[r].subrouters = Append(@, sub)]

(* Faulty variant of Mount: the pattern is restored, the host is left as   *)
(* the last imported route's.                                              *)
MountLeavesHost(w, r, pattern, sub) ==
    LET oldp == w.routers[r].pattern
        w1 == [w EXCEPT !.routers[r].pattern = MountPattern(oldp, pattern)]
        w2 == MountRoutes(w1, r, w1.routers[sub].routes)
    IN  [w2 EXCEPT !.routers[r].pattern = oldp]

Mount(w, r, pattern, sub) ==
    LET oldp == w.routers[r].pattern
        host == w.routers[r].host
        w1 == [w EXCEPT !.routers[r].pattern = MountPattern(oldp, pattern)]
        w2 == MountRoutes(w1, r, w1.routers[sub].routes)
    IN  [w2 EXCEPT !.routers[r].host = host, !.routers[r].pattern = oldp]

WithNotFoundHandler(w, r, h) == [w EXCEPT !.routers[r].notFoundHandler = h]

RECURSIVE Routes(_, _), RoutesOfAll(_, _)
Routes(w, r) == w.routers[r].routes \o RoutesOfAll(w, w.routers[r].subrouters)

RoutesOfAll(w, subrouters) ==
    IF subrouters = <<>> THEN <<>>
    ELSE Routes(w, Head(subrouters)) \o RoutesOfAll(w, Tail(subrouters))

(* New: a root router with its own host matcher, which always holds the    *)
(* default host "".                                                        *)
New(w, mws) ==
    LET nr == Len(w.routers) + 1
        w1 == [w EXCEPT !.routers = Append(@, newRouter(NilRouter, nr, <<>>, "")),
                        !.hostrm = MapPut(@, nr, MapPut(EmptyMap, "", EmptyMap))]
    IN  [w |-> Use(w1, nr, mws), nr |-> nr]

----------------------------------------------------------------------------
(* Matching.  A pattern is split on "/" into segments; a segment starting  *)
(* with ":" is a named parameter, any other is static.                     *)

RECURSIVE Split(_)
Split(s) ==
    IF s = <<>> THEN << <<>> >>
    ELSE LET rest == Split(Tail(s)) IN
         IF Head(s) = "/" THEN << <<>> >> \o rest
         ELSE << <<Head(s)>> \o Head(rest) >> \o Tail(rest)

Segments(p) == Tail(Split(p))

isParam(seg) == seg # <<>> /\ seg[1] = ":"

(* The parameter bindings under which the pattern's segments match the     *)
(* path's: a set with one binding, or the empty set when they do not match.*)
RECURSIVE matchSegments(_, _)
matchSegments(ps, xs) ==
    IF ps = <<>> THEN (IF xs = <<>> THEN {EmptyMap} ELSE {})
    ELSE IF xs = <<>> THEN {}
    ELSE IF isParam(Head(ps))
         THEN IF Head(xs) = <<>> THEN {}
              ELSE {MapPut(b, Tail(Head(ps)), Head(xs)) :
                        b \in matchSegments(Tail(ps), Tail(xs))}
    ELSE IF Head(ps) = Head(xs) THEN matchSegments(Tail(ps), Tail(xs))
    ELSE {}

(* p is more specific than q: at the first segment where their kinds       *)
(* differ, p's is static.                                                  *)
MoreSpecific(p, q) ==
    LET ps == Segments(p)
        qs == Segments(q)
    IN  \E i \in 1..Len(ps) :
            /\ i <= Len(qs)
            /\ ~isParam(ps[i]) /\ isParam(qs[i])
            /\ \A j \in 1..(i - 1) : isParam(ps[j]) = isParam(qs[j])

NoMatch == [h |-> NilHandler, params |-> EmptyMap]

(* pathMatcher.Match: static segments win over parameters; a path with no  *)
(* pattern, or a route without a handler for the method, is no match.      *)
pathMatch(w, pm, method, path) ==
    LET cands == {p \in DOMAIN pm : matchSegments(Segments(p), Segments(path)) # {}} IN
    IF cands = {} THEN NoMatch
    ELSE LET best == CHOOSE p \in cands : \A q \in cands \ {p} : MoreSpecific(p, q)
             route == w.rts[pm[best]]
         IN  IF method \in DOMAIN route.handlers
             THEN [h |-> route.handlers[method],
                   params |-> CHOOSE b \in matchSegments(Segments(best), Segments(path)) : TRUE]
             ELSE NoMatch

(* hostMatcher.Match: the path matcher of the exact host, else the default *)
(* host's when it has routes, else no match.                               *)
hostMatch(w, hm, req) ==
    IF req.host \in DOMAIN w.hostrm[hm]
    THEN pathMatch(w, w.hostrm[hm][req.host], req.method, req.path)
    ELSE IF DOMAIN w.hostrm[hm][""] # {}
    THEN pathMatch(w, w.hostrm[hm][""], req.method, req.path)
    ELSE NoMatch

----------------------------------------------------------------------------
(* Context and dispatch *)

NoRequest == 0

newContext == [params |-> EmptyMap, parent |-> NoRequest,
               ResponseWriter |-> NoRequest, req |-> NoRequest]

(* ctx.Reset: no parameters, no request or response reference. *)
Reset(c) == [c EXCEPT !.params = EmptyMap, !.parent = NoRequest,
                      !.ResponseWriter = NoRequest, !.req = NoRequest]

(* The match binds the extracted parameters in the context. *)
bindParams(c, params) ==
    [c EXCEPT !.params = [n \in DOMAIN @ \cup DOMAIN params |->
                             IF n \in DOMAIN params THEN params[n] ELSE @[n]]]

(* Faulty variant of ServeHTTP's preparation of the context: no Reset. *)
prepareContextNoReset(c, d) ==
    [c EXCEPT !.parent = d, !.ResponseWriter = d, !.req = d]

(* ServeHTTP, lines 131-134: the context of call d, reset and pointed at   *)
(* d's request and response.                                               *)
prepareContext(c, d) ==
    [Reset(c) EXCEPT !.parent = d, !.ResponseWriter = d, !.req = d]

(* Faulty variant of notFound: the override of the router served on. *)
notFoundOwn(w, r) ==
    IF w.routers[r].notFoundHandler # NilHandler
    THEN <<[kind |-> "notFoundHandler", h |-> w.routers[r].notFoundHandler]>>
    ELSE <<[kind |-> "http.NotFound", h |-> NilHandler]>>

(* notFound: what it invokes. *)
notFound(w, r) ==
    IF w.routers[root(w, r)].notFoundHandler # NilHandler
    THEN <<[kind |-> "notFoundHandler", h |-> w.routers[root(w, r)].notFoundHandler]>>
    ELSE <<[kind |-> "http.NotFound", h |-> NilHandler]>>

(* Faulty variant of ServeHTTP's body: not found is also called on a match.*)
serveBothBranches(w, r, c, d, req) ==
    LET c1 == prepareContext(c, d)
        m == hostMatch(w, w.routers[root(w, r)].hostrm, req)
    IN  IF m.h # NilHandler
        THEN [ctx |-> bindParams(c1, m.params),
              invoked |-> <<[kind |-> "chain", h |-> m.h]>> \o notFound(w, r),
              seen |-> <<bindParams(c1, m.params)>>]
        ELSE [ctx |-> c1, invoked |-> notFound(w, r), seen |-> <<>>]

(* ServeHTTP, lines 131-143, on context c for call d: the context after    *)
(* the match, what is invoked, and the context that the invoked handler    *)
(* can read through the request (set only when there is a match).          *)
serve(w, r, c, d, req) ==
    LET c1 == prepareContext(c, d)
        m == hostMatch(w, w.routers[root(w, r)].hostrm, req)
    IN  IF m.h # NilHandler
        THEN [ctx |-> bindParams(c1, m.params),
              invoked |-> <<[kind |-> "chain", h |-> m.h]>>,
              seen |-> <<bindParams(c1, m.params)>>]
        ELSE [ctx |-> c1, invoked |-> notFound(w, r), seen |-> <<>>]

(* Faulty variant of taking a context from the pool: it stays in the pool. *)
poolGetKeeps(pool, c) == pool

(* sync.Pool.Get of a pooled context: it leaves the pool. *)
poolGet(pool, c) == pool \ {c}

(* sync.Pool.Put *)
poolPut(pool, c) == pool \cup {c}

----------------------------------------------------------------------------
(* Inputs of the setup operations *)

MiddlewareNames == {"A", "B"}
MiddlewareArgs == {<<>>, <<"B">>}
HandlerNames == {"H"}
HandleMethods == {"GET", "POST"}
HandlePatterns == {<<"/">>, <<"/", "a">>}
GroupPatterns == {<<"/">>, <<"/", "a">>, <<"a">>, <<>>}
MountPatterns == {<<"/">>, <<"/", "a">>, <<"/", "a", "/">>}
HostPatterns == {"h"}
MiddlewareGroupNames == {"N"}

NoOp == [op |-> "", r |-> NilRouter, method |-> "", pattern |-> <<>>,
         handler |-> "", sub |-> NilRouter, rt |-> NoRoute]

IdleDispatch ==
    [pc |-> "idle", r |-> NilRouter, req |-> [host |-> "", method |-> "", path |-> <<>>],
     ctx |-> 0, invoked |-> <<>>, seen |-> <<>>, released |-> FALSE]

InitWorld ==
    New(New([routers |-> <<>>, rts |-> <<>>, hostrm |-> EmptyMap], <<>>).w, <<>>).w

Init ==
    /\ routers = InitWorld.routers
    /\ rts = InitWorld.rts
    /\ hostrm = InitWorld.hostrm
    /\ ctxs = <<>>
    /\ disp = [d \in 1..MaxDispatch |-> IdleDispatch]
    /\ fatal = FALSE
    /\ last = NoOp
    /\ mounts = {}
    /\ ops = 0

RouterIds == 1..Len(routers)

Setup(w, op) ==
    /\ routers' = w.routers
    /\ rts' = w.rts
    /\ hostrm' = w.hostrm
    /\ last' = op
    /\ ops' = ops + 1
    /\ UNCHANGED <<ctxs, disp, fatal>>

CanSetup == ~fatal /\ ops < MaxOps

DoUse ==
    /\ CanSetup
    /\ \E r \in RouterIds, mw \in MiddlewareNames :
          Setup(Use(World, r, <<mw>>), [NoOp EXCEPT !.op = "Use", !.r = r, !.handler = mw])
    /\ UNCHANGED mounts

DoSubrouter ==
    /\ CanSetup
    /\ Len(routers) < MaxRouters
    /\ \E r \in RouterIds, mws \in MiddlewareArgs :
          LET s == Subrouter(World, r, mws) IN
          Setup(s.w, [NoOp EXCEPT !.op = "Subrouter", !.r = r, !.sub = s.nr])
    /\ UNCHANGED mounts

DoGroup ==
    /\ CanSetup
    /\ Len(routers) < MaxRouters
    /\ \E r \in RouterIds, pattern \in GroupPatterns :
          IF validatePattern(GroupPattern(routers[r].pattern, pattern))
          THEN LET s == Group(World, r, pattern, <<>>) IN
               Setup(s.w, [NoOp EXCEPT !.op = "Group", !.r = r, !.pattern = pattern,
                                       !.sub = s.nr])
          ELSE /\ fatal' = TRUE
               /\ last' = [NoOp EXCEPT !.op = "Group", !.r = r, !.pattern = pattern]
               /\ ops' = ops + 1
               /\ UNCHANGED <<routers, rts, hostrm, ctxs, disp>>
    /\ UNCHANGED mounts

DoHost ==
    /\ CanSetup
    /\ \E r \in RouterIds, h \in HostPatterns :
          Setup(Host(World, r, h), [NoOp EXCEPT !.op = "Host", !.r = r, !.handler = h])
    /\ UNCHANGED mounts

DoHandle ==
    /\ CanSetup
    /\ \E r \in RouterIds, method \in HandleMethods, pattern \in HandlePatterns,
          h \in HandlerNames :
          LET res == Handle(World, r, method, pattern, Plain(h)) IN
          Setup(res.w, [NoOp EXCEPT !.op = "Handle", !.r = r, !.method = method,
                                    !.pattern = pattern, !.handler = h, !.rt = res.rt])
    /\ UNCHANGED mounts

DoAny ==
    /\ CanSetup
    /\ \E r \in RouterIds, pattern \in HandlePatterns, h \in HandlerNames :
          LET res == Any(World, r, pattern, Plain(h)) IN
          Setup(res.w, [NoOp EXCEPT !.op = "Any", !.r = r, !.pattern = pattern,
                                    !.handler = h, !.rt = res.rt])
    /\ UNCHANGED mounts

DoMount ==
    /\ CanSetup
    /\ \E r \in RouterIds, sub \in RouterIds, pattern \in MountPatterns :
          /\ sub # r
          /\ Setup(Mount(World, r, pattern, sub),
                   [NoOp EXCEPT !.op = "Mount", !.r = r, !.pattern = pattern, !.sub = sub])
          /\ mounts' = mounts \cup {[r |-> r, pattern |-> pattern, sub |-> sub]}

DoDefine ==
    /\ CanSetup
    /\ \E r \in RouterIds, name \in MiddlewareGroupNames, mws \in MiddlewareArgs :
          Setup(Define(World, r, name, mws),
                [NoOp EXCEPT !.op = "Define", !.r = r, !.handler = name])
    /\ UNCHANGED mounts

DoUseNamed ==
    /\ CanSetup
    /\ \E r \in RouterIds, name \in MiddlewareGroupNames :
          LET res == UseNamed(World, r, name) IN
          IF ~res.panic
          THEN Setup(res.w, [NoOp EXCEPT !.op = "UseNamed", !.r = r, !.handler = name])
          ELSE /\ fatal' = TRUE
               /\ last' = [NoOp EXCEPT !.op = "UseNamed", !.r = r, !.handler = name]
               /\ ops' = ops + 1
               /\ UNCHANGED <<routers, rts, hostrm, ctxs, disp>>
    /\ UNCHANGED mounts

----------------------------------------------------------------------------
(* Serving.  The routers are set up first (spec 5: registration happens    *)
(* before serving); the ServeHTTP calls then interleave.                   *)

ServeSetup ==
    LET w1 == Use(InitWorld, 1, <<"A">>)
        s  == Subrouter(w1, 1, <<"B">>)
        w2 == Handle(s.w, s.nr, "GET", <<"/", ":", "a">>, Plain("H")).w
        w3 == Handle(w2, 1, "GET", <<"/", "a">>, Plain("G")).w
        w4 == Host(w3, 2, "h")
    IN  Handle(w4, 2, "GET", <<"/", "a">>, Plain("H")).w

(* The not-found override: unset, set on the root, set on the subrouter.   *)
ServeWorlds ==
    {ServeSetup, WithNotFoundHandler(ServeSetup, 1, Plain("N")),
     WithNotFoundHandler(ServeSetup, 3, Plain("N"))}

(* The ServeHTTP calls made: the router served on and the request. *)
Calls ==
    {[r |-> 1, req |-> [host |-> "",  method |-> "GET",  path |-> <<"/", "b">>]],
     [r |-> 1, req |-> [host |-> "",  method |-> "GET",  path |-> <<"/", "a">>]],
     [r |-> 3, req |-> [host |-> "",  method |-> "POST", path |-> <<"/", "a">>]],
     [r |-> 2, req |-> [host |-> "h", method |-> "GET",  path |-> <<"/", "b">>]],
     [r |-> 2, req |-> [host |-> "x", method |-> "GET",  path |-> <<"/", "a">>]]}

InitServe ==
    /\ \E w \in ServeWorlds :
          /\ routers = w.routers
          /\ rts = w.rts
          /\ hostrm = w.hostrm
    /\ ctxs = <<>>
    /\ disp = [d \in 1..MaxDispatch |-> IdleDispatch]
    /\ fatal = FALSE
    /\ last = NoOp
    /\ mounts = {}
    /\ ops = 0

(* ServeHTTP line 130: a context from the router's pool, pooled or new.    *)
(* The calls are numbered in the order in which they start.                *)
ServeAcquire(d) ==
    /\ disp[d].pc = "idle"
    /\ d > 1 => disp[d - 1].pc # "idle"
    /\ \E call \in Calls :
          LET r == call.r
              req == call.req
          IN
          \/ \E c \in routers[r].pool :
                /\ routers' = [routers EXCEPT ![r].pool = poolGet(@, c)]
                /\ disp' = [disp EXCEPT ![d] = [@ EXCEPT !.pc = "acquired", !.r = r,
                                                         !.req = req, !.ctx = c]]
                /\ UNCHANGED ctxs
          \/ /\ ctxs' = Append(ctxs, newContext)
             /\ disp' = [disp EXCEPT ![d] = [@ EXCEPT !.pc = "acquired", !.r = r,
                                                      !.req = req, !.ctx = Len(ctxs) + 1]]
             /\ UNCHANGED routers
    /\ UNCHANGED <<rts, hostrm, fatal, last, mounts, ops>>

(* ServeHTTP lines 131-143: reset, match, and the call of the handler or   *)
(* of not found, which returns or panics.                                  *)
ServeDispatch(d) ==
    /\ disp[d].pc = "acquired"
    /\ \E outcome \in {"served", "panicked"} :
          LET res == serve(World, disp[d].r, ctxs[disp[d].ctx], d, disp[d].req) IN
          /\ ctxs' = [ctxs EXCEPT ![disp[d].ctx] = res.ctx]
          /\ disp' = [disp EXCEPT ![d] = [@ EXCEPT !.pc = outcome,
                                                   !.invoked = @ \o res.invoked,
                                                   !.seen = res.seen]]
    /\ UNCHANGED <<routers, rts, hostrm, fatal, last, mounts, ops>>

(* ServeHTTP line 145: the context goes back to the pool. *)
ServeRelease(d) ==
    /\ disp[d].pc = "served"
    /\ routers' = [routers EXCEPT ![disp[d].r].pool = poolPut(@, disp[d].ctx)]
    /\ disp' = [disp EXCEPT ![d] = [@ EXCEPT !.pc = "done", !.released = TRUE]]
    /\ UNCHANGED <<rts, hostrm, ctxs, fatal, last, mounts, ops>>

NextServe == \E d \in 1..MaxDispatch : ServeAcquire(d) \/ ServeDispatch(d) \/ ServeRelease(d)

SpecServe == InitServe /\ [][NextServe]_vars

(* Building handler chains: middleware, subrouters and registration. *)
NextChain == DoUse \/ DoSubrouter \/ DoHandle \/ DoAny

SpecChain == Init /\ [][NextChain]_vars

(* Building and mounting router trees. *)
Next == DoSubrouter \/ DoGroup \/ DoHost \/ DoHandle \/ DoMount

Spec == Init /\ [][Next]_vars

(* Subrouters among the calls that could touch their prefix and host. *)
NextTree == DoSubrouter \/ DoHost \/ DoHandle \/ DoUse \/ DoDefine \/ DoMount

SpecTree == Init /\ [][NextTree]_vars

(* Named middleware on a tree three routers deep: router 1 is the root,    *)
(* router 2 its subrouter and router 3 a subrouter of router 2.            *)
NamedSetup ==
    LET n == New([routers |-> <<>>, rts |-> <<>>, hostrm |-> EmptyMap], <<>>)
        s == Subrouter(n.w, n.nr, <<>>)
    IN  Subrouter(s.w, s.nr, <<>>).w

InitNamed ==
    /\ routers = NamedSetup.routers
    /\ rts = NamedSetup.rts
    /\ hostrm = NamedSetup.hostrm
    /\ ctxs = <<>>
    /\ disp = [d \in 1..MaxDispatch |-> IdleDispatch]
    /\ fatal = FALSE
    /\ last = NoOp
    /\ mounts = {}
    /\ ops = 0

NextNamed == DoDefine \/ DoUseNamed \/ DoUse \/ DoHandle

SpecNamed == InitNamed /\ [][NextNamed]_vars

(* Prefixes: a root, whose prefix is "", alone or with one subrouter made  *)
(* by Group, whose prefix is "/" or "/a".                                  *)
PrefixWorlds ==
    LET n == New([routers |-> <<>>, rts |-> <<>>, hostrm |-> EmptyMap], <<>>) IN
    {n.w, Group(n.w, n.nr, <<"/">>, <<>>).w, Group(n.w, n.nr, <<"/", "a">>, <<>>).w}

InitPrefix ==
    /\ \E w \in PrefixWorlds :
          /\ routers = w.routers
          /\ rts = w.rts
          /\ hostrm = w.hostrm
    /\ ctxs = <<>>
    /\ disp = [d \in 1..MaxDispatch |-> IdleDispatch]
    /\ fatal = FALSE
    /\ last = NoOp
    /\ mounts = {}
    /\ ops = 0

NextPrefix == DoGroup \/ DoHandle

SpecPrefix == InitPrefix /\ [][NextPrefix]_vars

----------------------------------------------------------------------------
(* What running a handler does: each middleware before the next one, the   *)
(* terminal handler, then each middleware after it, in reverse.            *)

Reverse(s) == [i \in 1..Len(s) |-> s[Len(s) + 1 - i]]

Trace(handler) ==
    [i \in 1..Len(handler.mws) |-> <<handler.mws[i], "before">>]
    \o << <<handler.h, "handler">> >>
    \o Reverse([i \in 1..Len(handler.mws) |-> <<handler.mws[i], "after">>])

(* The routers from the root down to r. *)
RECURSIVE AncestorPath(_)
AncestorPath(r) ==
    IF routers[r].parent = NilRouter THEN <<r>>
    ELSE Append(AncestorPath(routers[r].parent), r)

RECURSIVE ConcatMiddlewares(_)
ConcatMiddlewares(path) ==
    IF path = <<>> THEN <<>>
    ELSE routers[Head(path)].middlewares \o ConcatMiddlewares(Tail(path))

(* The middleware a route registered on r must run under: the root's first, *)
(* r's own last, each router's in registration order.                       *)
ExpectedMiddlewares(r) == ConcatMiddlewares(AncestorPath(r))

(* The handler a request for (host, method, pattern) is matched to in r's  *)
(* tree, NilHandler when there is none.                                    *)
RegisteredIn(w, r, host, method, p) ==
    LET hm == w.hostrm[w.routers[root(w, r)].hostrm] IN
    IF host \in DOMAIN hm /\ p \in DOMAIN hm[host]
       /\ method \in DOMAIN w.rts[hm[host][p]].handlers
    THEN w.rts[hm[host][p]].handlers[method]
    ELSE NilHandler

Registered(r, host, method, p) == RegisteredIn(World, r, host, method, p)

----------------------------------------------------------------------------
(* C1: a route registered with Handle on a router runs, for a matching     *)
(* request, the middleware of the root first, then of each router down to  *)
(* the registering one, then the handler, then the same middleware after   *)
(* the handler in reverse order; within one router the first-registered    *)
(* middleware is outermost.  With ancestor middleware A and own middleware *)
(* B: A-before, B-before, handler, B-after, A-after.                       *)
C1_HandleChainOrder ==
    last.op = "Handle" =>
        LET r == last.r
            p == HandlePattern(routers[r].pattern, last.pattern)
            mws == ExpectedMiddlewares(r)
        IN  Trace(Registered(r, routers[r].host, last.method, p))
              = [i \in 1..Len(mws) |-> <<mws[i], "before">>]
                \o << <<last.handler, "handler">> >>
                \o [i \in 1..Len(mws) |-> <<mws[Len(mws) + 1 - i], "after">>]

(* C1 witness: Handle on a subrouter with middleware B whose parent has    *)
(* middleware A; the registered chain runs A, B, handler, B, A.            *)
C1_Witness ==
    /\ last.op = "Handle"
    /\ routers[last.r].parent # NilRouter
    /\ routers[routers[last.r].parent].middlewares = <<"A">>
    /\ routers[last.r].middlewares = <<"B">>
    /\ Trace(rts[last.rt].handlers[last.method])
         = << <<"A", "before">>, <<"B", "before">>, <<last.handler, "handler">>,
              <<"B", "after">>, <<"A", "after">> >>

(* C2: every method of a route registered on a non-root router, by Handle  *)
(* or by Any, has a chain wrapped by the middleware of every ancestor,     *)
(* outside the registering router's own middleware.                        *)
C2_AllMethodsAncestorWrapped ==
    (last.op \in {"Handle", "Any"} /\ routers[last.r].parent # NilRouter) =>
        \A m \in (IF last.op = "Any" THEN {allowedHTTPMethods[i] : i \in 1..Len(allowedHTTPMethods)}
                   ELSE {last.method}) :
            /\ m \in DOMAIN rts[last.rt].handlers
            /\ rts[last.rt].handlers[m].mws = ExpectedMiddlewares(last.r)

----------------------------------------------------------------------------
(* The ServeHTTP calls past their handler, and those holding a context. *)
Dispatched == {d \in 1..MaxDispatch : disp[d].pc \in {"served", "panicked", "done"}}

InFlight == {d \in 1..MaxDispatch : disp[d].pc \in {"acquired", "served"}}

(* What the request of call d resolves to, matched on a fresh context. *)
Resolved(d) == hostMatch(World, routers[root(World, disp[d].r)].hostrm, disp[d].req)

(* C3: each ServeHTTP call invokes exactly one thing: the chain resolved   *)
(* for the request's host, method and path, or, when nothing matches, the  *)
(* not-found handler: the override set on the root if there is one, the    *)
(* generic 404 response otherwise.                                         *)
C3_ExactlyOneInvocation ==
    \A d \in Dispatched :
        /\ Len(disp[d].invoked) = 1
        /\ disp[d].invoked[1] =
             IF Resolved(d).h # NilHandler
             THEN [kind |-> "chain", h |-> Resolved(d).h]
             ELSE IF routers[root(World, disp[d].r)].notFoundHandler # NilHandler
             THEN [kind |-> "notFoundHandler",
                   h |-> routers[root(World, disp[d].r)].notFoundHandler]
             ELSE [kind |-> "http.NotFound", h |-> NilHandler]

(* C3 witness: one call ran a matched chain and another, served on a       *)
(* subrouter for a method the route lacks, ran the root's override.        *)
C3_Witness ==
    \E d1, d2 \in Dispatched :
        /\ disp[d1].invoked = <<[kind |-> "chain", h |-> [mws |-> <<"A", "B">>, h |-> "H"]]>>
        /\ disp[d2].r = 3
        /\ disp[d2].req.method = "POST"
        /\ disp[d2].invoked = <<[kind |-> "notFoundHandler", h |-> Plain("N")]>>

(* C4: every ServeHTTP call has put its context back in the pool when it   *)
(* ends, whether a route matched, none matched, or the handler panicked.   *)
C4_ContextAlwaysReleased ==
    \A d \in 1..MaxDispatch : disp[d].pc \in {"done", "panicked"} => disp[d].released

(* C5: the handler of a request sees in its context exactly the parameters *)
(* of its own match and its own request and response, also when the        *)
(* context served another request before.                                  *)
C5_NoStaleContext ==
    \A d \in Dispatched :
        disp[d].seen # <<>> =>
            /\ disp[d].seen[1].params = Resolved(d).params
            /\ disp[d].seen[1].req = d
            /\ disp[d].seen[1].ResponseWriter = d
            /\ disp[d].seen[1].parent = d

(* C5 witness: the second request runs on the context on which the first   *)
(* bound a parameter, matches a static route and sees no parameter.        *)
C5_Witness ==
    \E d1, d2 \in Dispatched :
        /\ d1 # d2
        /\ disp[d1].pc = "done"
        /\ disp[d1].ctx = disp[d2].ctx
        /\ disp[d1].seen # <<>> /\ disp[d1].seen[1].params # EmptyMap
        /\ disp[d2].seen # <<>> /\ disp[d2].seen[1].params = EmptyMap

(* C6: no context is held by two calls in flight, and a context held by a  *)
(* call in flight is not in a pool, from which another call could take it. *)
C6_ContextExclusive ==
    /\ \A d1, d2 \in InFlight : d1 # d2 => disp[d1].ctx # disp[d2].ctx
    /\ \A d \in InFlight : \A r \in RouterIds : disp[d].ctx \notin routers[r].pool

(* C6 witness: two calls in flight on the same router, past their         *)
(* handlers and not yet released, each with a context of its own.          *)
C6_Witness ==
    \E d1, d2 \in InFlight :
        /\ d1 # d2
        /\ disp[d1].r = disp[d2].r
        /\ disp[d1].pc = "served" /\ disp[d2].pc = "served"
        /\ disp[d1].ctx # disp[d2].ctx

----------------------------------------------------------------------------
(* Mount.  The claims about a Mount call compare the state before the call *)
(* with the state after it.                                                *)

WorldNext == [routers |-> routers', rts |-> rts', hostrm |-> hostrm']

NoDoubleSlash(p) == \A i \in 1..(Len(p) - 1) : ~(p[i] = "/" /\ p[i + 1] = "/")

(* The pattern under which r.Mount(prefix, sub) registers a route of sub   *)
(* whose stored pattern is q.                                              *)
MountTarget(r, prefix, q) == HandlePattern(MountPattern(routers[r].pattern, prefix), q)

(* C7: after r.Mount(prefix, sub) with a prefix other than "/", for every  *)
(* route that sub owned with a stored pattern q other than "/" and host h, *)
(* r's matcher holds under h (not under r's own host) a route with pattern *)
(* r's prefix + prefix + q, host h, and a handler for each method the sub  *)
(* route had.                                                              *)
C7_MountKeepsHost ==
    [][(last'.op = "Mount" /\ last'.pattern # <<"/">>) =>
        \A i \in DOMAIN routers[last'.sub].routes :
            LET route == rts[routers[last'.sub].routes[i]]
                p == routers[last'.r].pattern \o last'.pattern \o route.pattern
                hm == hostrm'[routers[root(World, last'.r)].hostrm]
            IN  route.pattern # <<"/">> =>
                    /\ route.host \in DOMAIN hm
                    /\ p \in DOMAIN hm[route.host]
                    /\ rts'[hm[route.host][p]].pattern = p
                    /\ rts'[hm[route.host][p]].host = route.host
                    /\ DOMAIN route.handlers \subseteq DOMAIN rts'[hm[route.host][p]].handlers
      ]_vars

(* C7 witness: a router whose host is "" has mounted at "/a" a router of   *)
(* another tree with a GET route "/a" under host "h"; the route "/a/a" is  *)
(* in its matcher under "h", with GET, and not under "".                   *)
C7_Witness ==
    /\ last.op = "Mount"
    /\ last.pattern = <<"/", "a">>
    /\ routers[last.r].host = ""
    /\ root(World, last.r) # root(World, last.sub)
    /\ \E i \in DOMAIN routers[last.sub].routes :
          LET route == rts[routers[last.sub].routes[i]] IN
          /\ route.host = "h"
          /\ route.pattern = <<"/", "a">>
          /\ DOMAIN route.handlers = {"GET"}
          /\ Registered(last.r, "h", "GET", <<"/", "a", "/", "a">>) # NilHandler
          /\ Registered(last.r, "", "GET", <<"/", "a", "/", "a">>) = NilHandler

(* C8: r.Mount(prefix, sub) registers on r, under the prefix, every route  *)
(* of sub's effective route set at call time (sub's own routes and those   *)
(* of every subrouter below it), with each of its methods.                 *)
C8_MountImportsTransitively ==
    [][last'.op = "Mount" =>
        \A i \in DOMAIN Routes(World, last'.sub) :
            LET route == rts[Routes(World, last'.sub)[i]] IN
            \A m \in DOMAIN route.handlers :
                RegisteredIn(WorldNext, last'.r, route.host, m,
                             MountTarget(last'.r, last'.pattern, route.pattern)) # NilHandler
      ]_vars

(* r is an ancestor of s, by the parent references. *)
IsBelow(s, r) == \E i \in 1..(Len(AncestorPath(s)) - 1) : AncestorPath(s)[i] = r

C10_MountJoinsCleanly ==
    [][last'.op = "Mount" =>
        \A i \in DOMAIN routers[last'.sub].routes :
            LET route == rts[routers[last'.sub].routes[i]]
                hm == hostrm'[routers[root(World, last'.r)].hostrm]
            IN  \A p \in DOMAIN hm[route.host] :
                    p \notin (IF route.host \in DOMAIN hostrm[routers[root(World, last'.r)].hostrm]
                              THEN DOMAIN hostrm[routers[root(World, last'.r)].hostrm][route.host]
                              ELSE {})
                    => NoDoubleSlash(p)
      ]_vars

----------------------------------------------------------------------------
(* C11: when r.Mount(prefix, sub) returns, r's pattern prefix and ambient  *)
(* host are what they were before the call, whatever hosts the imported    *)
(* routes were registered under, and a route that r registers next goes    *)
(* under that prefix and that host.                                        *)
C11_MountRestoresPrefixAndHost ==
    [][last'.op = "Mount" =>
        LET r == last'.r IN
        /\ routers'[r].pattern = routers[r].pattern
        /\ routers'[r].host = routers[r].host
        /\ \A pattern \in HandlePatterns :
              LET res == Handle(WorldNext, r, "GET", pattern, Plain("H"))
                  route == res.w.rts[res.rt]
              IN  /\ route.pattern = HandlePattern(routers[r].pattern, pattern)
                  /\ route.host = routers[r].host
      ]_vars

(* C11 witness: a router whose host is "" and whose prefix is "" has       *)
(* mounted at "/a" a router with a route under host "h", registered the    *)
(* route under "h", and has host "" and prefix "" again.                   *)
C11_Witness ==
    /\ last.op = "Mount"
    /\ last.pattern = <<"/", "a">>
    /\ routers[last.r].host = ""
    /\ routers[last.r].pattern = <<>>
    /\ \E i \in DOMAIN routers[last.sub].routes :
          /\ rts[routers[last.sub].routes[i]].host = "h"
          /\ Registered(last.r, "h", "GET",
                        <<"/", "a">> \o rts[routers[last.sub].routes[i]].pattern) # NilHandler

----------------------------------------------------------------------------
(* The routers that define the name on the way from the root down to r. *)
DefinedOnPath(r, name) ==
    {AncestorPath(r)[i] : i \in 1..Len(AncestorPath(r))}
        \cap {a \in RouterIds : hasNamed(World, a, name)}

(* C12: UseNamed(name) on a router completes exactly when that router or   *)
(* one of its ancestors, at any depth up to the root, has defined the      *)
(* name; otherwise it is a fatal error of the setup.                       *)
C12_UseNamedFindsAncestorGroup ==
    last.op = "UseNamed" => (fatal <=> DefinedOnPath(last.r, last.handler) = {})

(* C12 witness: UseNamed completed on router 3, two levels below the root, *)
(* with the name defined at the root only.                                 *)
C12_Witness ==
    /\ last.op = "UseNamed"
    /\ ~fatal
    /\ last.r = 3
    /\ DefinedOnPath(3, last.handler) = {1}

----------------------------------------------------------------------------
(* How many times the route is in the router's own route list. *)
Occurrences(routes, rt) == Cardinality({i \in DOMAIN routes : routes[i] = rt})

(* C13: a Route is unique per host and resolved pattern.  When a router    *)
(* that owns a route for its current host and the resolved pattern calls   *)
(* Handle for them again, the same Route is returned; a method the route   *)
(* lacks is added, a method it has gets the new chain, every other method  *)
(* keeps its chain, and the router's route list holds the Route once.      *)
C13_RouteUniquePerHostPattern ==
    [][last'.op = "Handle" =>
        LET r == last'.r
            p == HandlePattern(routers[r].pattern, last'.pattern)
        IN  /\ Occurrences(routers'[r].routes, last'.rt) = 1
            /\ \A i \in DOMAIN routers[r].routes :
                  LET rt == routers[r].routes[i] IN
                  (rts[rt].host = routers[r].host /\ rts[rt].pattern = p) =>
                      /\ last'.rt = rt
                      /\ routers'[r].routes = routers[r].routes
                      /\ DOMAIN rts'[rt].handlers = DOMAIN rts[rt].handlers \cup {last'.method}
                      /\ rts'[rt].handlers[last'.method]
                            = buildMiddlewares(World, r, Plain(last'.handler))
                      /\ \A m \in DOMAIN rts[rt].handlers \ {last'.method} :
                            rts'[rt].handlers[m] = rts[rt].handlers[m]
      ]_vars

(* C13 witness: three calls were made on two routers, one Use and two      *)
(* Handle of GET for one pattern on the router that took the middleware;   *)
(* it owns one route, the only one there is, with the one method, whose    *)
(* chain is the last one registered.                                       *)
C13_Witness ==
    /\ last.op = "Handle"
    /\ ops = 3
    /\ Len(routers) = 2
    /\ Len(rts) = 1
    /\ routers[last.r].middlewares = <<"A">>
    /\ routers[last.r].routes = <<last.rt>>
    /\ DOMAIN rts[last.rt].handlers = {"GET"}
    /\ rts[last.rt].handlers["GET"] = [mws |-> <<"A">>, h |-> last.handler]

----------------------------------------------------------------------------
(* C14: Group(prefix) with a prefix that is empty or does not start with   *)
(* "/" is a fatal error of the setup, whatever the prefix of the router it *)
(* is called on, and creates no subrouter.                                 *)
C14_GroupRejectsBadPrefix ==
    [][(last'.op = "Group" /\ ~validatePattern(last'.pattern)) =>
        (fatal' /\ routers' = routers)
      ]_vars

(* C15: Handle resolves its pattern by the rule of Group: on a router with *)
(* any prefix, "" and "/" included, the pattern under which Handle         *)
(* registers a pattern is the prefix that Group, called with the same      *)
(* pattern on the same router, gives the new subrouter.                    *)
C15_HandleResolvesLikeGroup ==
    [][(last'.op = "Group" /\ ~fatal') =>
        LET res == Handle(World, last'.r, "GET", last'.pattern, Plain("H")) IN
        res.w.rts[res.rt].pattern = routers'[last'.sub].pattern
      ]_vars

----------------------------------------------------------------------------
(* The routes a router owns directly. *)
OwnRoutes(r) == {routers[r].routes[i] : i \in DOMAIN routers[r].routes}

(* C16: no Route is in the own route list of two routers of one tree: a    *)
(* router never owns directly a route that one of its subrouters owns, and *)
(* Routes() of a router lists every route once.                            *)
C16_RouteOwnedOnce ==
    /\ \A r1, r2 \in RouterIds :
          (r1 # r2 /\ root(World, r1) = root(World, r2)) => OwnRoutes(r1) \cap OwnRoutes(r2) = {}
    /\ \A r \in RouterIds :
          \A i, j \in DOMAIN Routes(World, r) :
              Routes(World, r)[i] = Routes(World, r)[j] => i = j

----------------------------------------------------------------------------
(* The nearest router, from r upwards, that defines the name. *)
RECURSIVE Definer(_, _)
Definer(r, name) ==
    IF hasNamed(World, r, name) \/ isRoot(World, r) THEN r
    ELSE Definer(routers[r].parent, name)

(* C17: UseNamed(name) on a router n that does not define the name, while  *)
(* an ancestor does, appends the named group to n's own middleware list    *)
(* and leaves the middleware list of every other router, the defining      *)
(* ancestor included, as it was.                                           *)
C17_UseNamedExtendsReceiverOnly ==
    [][(last'.op = "UseNamed" /\ ~fatal' /\ ~hasNamed(World, last'.r, last'.handler)) =>
        LET n == last'.r
            group == routers[Definer(n, last'.handler)].namedMiddlewares[last'.handler]
        IN  /\ routers'[n].middlewares = routers[n].middlewares \o group
            /\ \A r \in RouterIds \ {n} : routers'[r].middlewares = routers[r].middlewares
      ]_vars

----------------------------------------------------------------------------
(* C18: every context resting in a pool has no parameter bindings and no   *)
(* reference to a request or a response.                                   *)
C18_PooledContextClean ==
    \A r \in RouterIds : \A c \in routers[r].pool :
        /\ ctxs[c].params = EmptyMap
        /\ ctxs[c].req = NoRequest
        /\ ctxs[c].ResponseWriter = NoRequest

----------------------------------------------------------------------------
(* C19: a subrouter has, when Subrouter returns it, the prefix and the     *)
(* host of its parent; afterwards its prefix does not change and its host  *)
(* changes only by a Host call on the subrouter itself, not by a Host call *)
(* on another router nor by any Handle, Use, Define or Mount; the routes   *)
(* it registers go under the host it has.                                  *)
C19_SubrouterKeepsPrefixAndHost ==
    [][/\ last'.op = "Subrouter" =>
            /\ routers'[last'.sub].pattern = routers[last'.r].pattern
            /\ routers'[last'.sub].host = routers[last'.r].host
       /\ \A s \in RouterIds :
            routers[s].parent # NilRouter =>
                /\ routers'[s].pattern = routers[s].pattern
                /\ ~(last'.op = "Host" /\ last'.r = s) => routers'[s].host = routers[s].host
                /\ (last'.op = "Handle" /\ last'.r = s) => rts'[last'.rt].host = routers[s].host
      ]_vars

(* C19 witness: a subrouter made while its parent's host was "" registers  *)
(* a route after a Host call on the parent; the parent's host is "h", the  *)
(* subrouter's host and the route's are "".                                *)
C19_Witness ==
    /\ last.op = "Handle"
    /\ routers[last.r].parent # NilRouter
    /\ routers[routers[last.r].parent].host = "h"
    /\ routers[last.r].host = ""
    /\ rts[last.rt].host = ""

----------------------------------------------------------------------------
(* C20: the chain of a route's method is fixed when the method is          *)
(* registered.  Use, UseNamed and Define, on any router, change no stored  *)
(* chain; a method registered afterwards gets the chain built from the     *)
(* middleware lists as they are then.                                      *)
C20_ChainFixedAtRegistration ==
    [][/\ last'.op \in {"Use", "UseNamed", "Define"} => rts' = rts
       /\ last'.op = "Handle" =>
            /\ rts'[last'.rt].handlers[last'.method]
                  = BuildHandler(ExpectedMiddlewares(last'.r), Plain(last'.handler))
            /\ \A rt \in DOMAIN rts : \A m \in DOMAIN rts[rt].handlers :
                  (rt # last'.rt \/ m # last'.method) =>
                      rts'[rt].handlers[m] = rts[rt].handlers[m]
      ]_vars

(* C20 witness: a router registered GET for a pattern, took middleware A   *)
(* into use and registered POST for the pattern: the route's GET chain is  *)
(* without A and its POST chain has it.                                    *)
C20_Witness ==
    /\ last.op = "Handle"
    /\ last.method = "POST"
    /\ routers[last.r].routes = <<last.rt>>
    /\ DOMAIN rts[last.rt].handlers = {"GET", "POST"}
    /\ rts[last.rt].handlers["GET"].mws = <<>>
    /\ rts[last.rt].handlers["POST"].mws = <<"A">>

====
